---------------------------- MODULE Spec2Model ----------------------------
(***************************************************************************)
(* A model of the Analysis-Agent repository: the tool registry             *)
(* (src/src/tools/base.py), the ReAct loop of AgentOrchestrator.run        *)
(* (src/src/agent/orchestrator.py) and the paragraph/sentence chunker      *)
(* (src/src/ingestion/chunker.py).                                         *)
(*                                                                         *)
(* Python strings are modelled as sequences: a message text is a sequence  *)
(* of tokens, a text handed to the chunker is a sequence of characters.    *)
(* The empty string is <<>>, len(s) is Len(s).                             *)
(***************************************************************************)
EXTENDS Integers, Sequences, FiniteSets, TLC

VARIABLES
    registry,        \* ToolRegistry._tools: insertion-ordered dict, a sequence of [name, tool]
    lastRegistered,  \* history: per tool name, the tool most recently passed to register
    regLog,          \* history: the order in which tools and names were registered
                     \* and how often the name was registered (0, 1, or 2 for more than once)
    max_iterations,  \* AgentOrchestrator.max_iterations
    pc,              \* position of run: idle, think, dispatch, summarize, returned, raised
    iteration,       \* loop variable of the for loop of run
    messages,        \* the conversation history of the run
    tools,           \* the tool declarations computed at the start of run
    pending,         \* assistant_message.tool_calls of the current iteration
    callIdx,         \* position of the inner for loop in pending
    answer,          \* the value run returned
    error,           \* the exception run raised
    nextId,          \* number of tool calls requested so far (source of call ids)
    requests,        \* history: the reasoning calls issued, each with the history passed
    lastExec,        \* history: the last ToolRegistry.execute invocation
    chunkIn,         \* the chunker's configuration and the text it is handed
    chunkDone,       \* whether the chunker call returned
    chunkOut,        \* the chunks the chunker call collected so far
    chunkIndex,      \* the chunker call's local variable index
    chunkStart,      \* split_fixed's local variable start
    chunkHeap,       \* the dict objects alive: the caller's metadata and the chunks'
    collection,      \* the records of the VectorStore's collection
    storeOp,         \* the last call made on the VectorStore, with what it returned
    embedOp,         \* the call of Embedder.embed_batch: its input, the provider's answer, its result
    retrievalOp,     \* the last call of RetrievalTool.execute, with the searches it made
    runs,            \* the run invocations executing concurrently on one orchestrator
    histories        \* the list objects alive that hold conversation histories

orchVars == <<max_iterations, pc, iteration, messages, tools, pending, callIdx,
              answer, error, nextId, requests>>
regVars == <<registry, lastRegistered, regLog>>
chunkVars == <<chunkIn, chunkDone, chunkOut, chunkIndex, chunkStart, chunkHeap>>
storeVars == <<collection, storeOp>>
embedVars == <<embedOp>>
retrVars == <<retrievalOp>>
concVars == <<runs, histories>>
vars == <<registry, lastRegistered, regLog, max_iterations, pc, iteration, messages,
          tools, pending, callIdx, answer, error, nextId, requests, lastExec,
          chunkIn, chunkDone, chunkOut, chunkIndex, chunkStart, chunkHeap,
          collection, storeOp, embedOp, retrievalOp, runs, histories>>

---------------------------------------------------------------------------
(* Bounds of the model *)

\* largest max_iterations an orchestrator is constructed with
MaxIter == 2
\* largest number of tool calls the reasoning service requests in one run
MaxToolCalls == 2
\* longest text handed to the chunker
MaxTextLen == 5
\* largest chunk_size a chunker is constructed with
MaxChunkSize == 3
\* largest min_chunk_size a chunker is constructed with
MaxMinChunkSize == 2
\* largest overlap a chunker is constructed with
MaxOverlap == 1
\* longest text handed to the chunker together with a metadata dict
MaxMetaTextLen == 4
\* largest number of records the collection is filled with
MaxDocs == 2
\* largest top_k a search is called with
MaxTopK == 2
\* largest number of texts handed to embed_batch in one call
MaxBatch == 3
\* largest number of run invocations in progress on one orchestrator
MaxRuns == 2

---------------------------------------------------------------------------
(* Values *)

\* Python's None where a string is expected, and a Python str
None == [none |-> TRUE, text |-> <<>>]
Str(s) == [none |-> FALSE, text |-> s]

\* None where a Tool is expected
NoTool == [id |-> "None", name |-> "None"]

\* The tools of the repository, each with the value of its name property:
\* RetrievalTool and MockSearchTool share the name "search_report"
Tools ==
    { [id |-> "CalculatorTool", name |-> "calculator"],
      [id |-> "RetrievalTool",  name |-> "search_report"],
      [id |-> "MockSearchTool", name |-> "search_report"] }

ToolNames == { t.name : t \in Tools }

\* Names the reasoning service may put in a tool call
CallNames == ToolNames

\* What Tool.execute(**kwargs) does on one call: returns a string or raises
\* an Exception whose str() is the given text (str(e) may be empty)
ToolOutcomes ==
    { [kind |-> "return", text |-> <<"345">>],
      [kind |-> "raise",  text |-> <<>>],
      [kind |-> "raise",  text |-> <<"missing argument">>] }

\* tool_call.function.arguments: the text of a JSON object, or text that is
\* not JSON
ArgPayloads == {"object", "malformed"}

\* assistant_message.content
Contents == { None, Str(<<>>), Str(<<"text">>) }

SystemPrompt == <<"system_prompt">>
Question == <<"question">>
\* the text of the user message appended when the budget is exhausted
SummaryDirective == <<"give your final answer from what was gathered">>
\* the literal parts of the two error strings of ToolRegistry.execute
NotFoundPrefix == "error: tool not found: "
ExecErrorPrefix == "tool execution failed: "

Msg(role, content, calls, id) ==
    [role |-> role, content |-> content, tool_calls |-> calls, tool_call_id |-> id]

---------------------------------------------------------------------------
(* ToolRegistry *)

RECURSIVE IndexOfName(_, _, _)
\* position of key name in the dict, 0 when absent
IndexOfName(reg, name, i) ==
    IF i > Len(reg) THEN 0
    ELSE IF reg[i].name = name THEN i
    ELSE IndexOfName(reg, name, i + 1)

\* A plausible bug: a list of tools appended to, instead of a dict keyed by name
RegisterAppend(reg, tool) ==
    Append(reg, [name |-> tool.name, tool |-> tool])

\* A plausible bug: the name is removed and inserted again, so that a
\* re-registered name moves to the end
RegisterMoveToEnd(reg, tool) ==
    Append(SelectSeq(reg, LAMBDA e : e.name # tool.name),
           [name |-> tool.name, tool |-> tool])

\* ToolRegistry.register: self._tools[tool.name] = tool.  Assigning to an
\* existing key of a dict replaces the value and keeps the key's position.
Register(reg, tool) ==
    LET i == IndexOfName(reg, tool.name, 1) IN
    IF i = 0 THEN Append(reg, [name |-> tool.name, tool |-> tool])
    ELSE [reg EXCEPT ![i] = [name |-> tool.name, tool |-> tool]]

\* ToolRegistry.get: self._tools.get(name)
Get(reg, name) ==
    LET i == IndexOfName(reg, name, 1) IN
    IF i = 0 THEN NoTool ELSE reg[i].tool

\* Tool.to_openai_tool: the declaration built from the tool's name,
\* description and parameters, identified here by the tool it was built from
ToOpenAITool(tool) == tool

\* ToolRegistry.get_openai_tools: one declaration per value of the dict, in
\* dict order
GetOpenAITools(reg) == [i \in 1..Len(reg) |-> ToOpenAITool(reg[i].tool)]

\* A plausible bug: no try/except around tool.execute
ExecuteNoCatch(reg, tool_name, outcome) ==
    LET tool == Get(reg, tool_name) IN
    IF tool = NoTool
    THEN [raised |-> FALSE, value |-> <<NotFoundPrefix, tool_name>>]
    ELSE IF outcome.kind = "raise"
         THEN [raised |-> TRUE, value |-> outcome.text]
         ELSE [raised |-> FALSE, value |-> outcome.text]

\* A plausible bug: an unknown name raises KeyError (self._tools[tool_name])
ExecuteKeyError(reg, tool_name, outcome) ==
    LET tool == Get(reg, tool_name) IN
    IF tool = NoTool
    THEN [raised |-> TRUE, value |-> <<tool_name>>]
    ELSE IF outcome.kind = "raise"
         THEN [raised |-> FALSE, value |-> <<ExecErrorPrefix>> \o outcome.text]
         ELSE [raised |-> FALSE, value |-> outcome.text]

\* ToolRegistry.execute(tool_name, **kwargs): the value returned, or the
\* exception raised to the caller.  outcome is what the tool's execute does.
Execute(reg, tool_name, outcome) ==
    LET tool == Get(reg, tool_name) IN
    IF tool = NoTool
    THEN [raised |-> FALSE, value |-> <<NotFoundPrefix, tool_name>>]
    ELSE IF outcome.kind = "raise"
         THEN [raised |-> FALSE, value |-> <<ExecErrorPrefix>> \o outcome.text]
         ELSE [raised |-> FALSE, value |-> outcome.text]

\* the record kept of one ToolRegistry.execute invocation
ExecRecord(reg, tool_name, outcome, res, regAfter) ==
    [name |-> tool_name, known |-> Get(reg, tool_name) # NoTool,
     outcome |-> outcome, result |-> res, before |-> reg, after |-> regAfter]

NoExec == [name |-> "None", known |-> FALSE,
           outcome |-> [kind |-> "None", text |-> <<>>],
           result |-> [raised |-> FALSE, value |-> <<>>],
           before |-> <<>>, after |-> <<>>]

---------------------------------------------------------------------------
(* Chunker *)

\* the characters of the texts handed to the chunker
NL == "\n"
Chars == {"a", ".", " ", NL}
\* str.isspace, as str.strip() and the regular expression's \s use it
IsSpace(c) == c \in {" ", NL}
\* the character class of the lookbehind of split_by_sentences
IsTerminator(c) == c \in {".", "!", "?", NL}

\* the default of Chunker.__init__ for min_chunk_size
DefaultMinChunkSize == 50

\* a dict is the set of its <<key, value>> items, one item per key
EmptyDict == {}
\* {**d, key: value}: the later key wins
DictMerge(d, key, value) == {item \in d : item[1] # key} \cup {<<key, value>>}
DictKeys(d) == {item[1] : item \in d}
\* d[key]
DictGet(d, key) == (CHOOSE item \in d : item[1] = key)[2]

\* the metadata argument is a reference into the heap of dict objects, or
\* NoneRef for None; the caller's dict, when there is one, is object 1
NoneRef == 0
CallerRef == 1

\* no chunker call was made yet
NoChunkIn == [strategy |-> "none", text |-> <<>>, chunk_size |-> 0, overlap |-> 0,
              min_chunk_size |-> 0, metadata |-> NoneRef, caller_meta |-> EmptyDict]

RECURSIVE LStrip(_)
LStrip(s) == IF s # <<>> /\ IsSpace(Head(s)) THEN LStrip(Tail(s)) ELSE s

RECURSIVE RStrip(_)
RStrip(s) ==
    IF s # <<>> /\ IsSpace(s[Len(s)]) THEN RStrip(SubSeq(s, 1, Len(s) - 1)) ELSE s

\* str.strip()
Strip(s) == RStrip(LStrip(s))

RECURSIVE SplitBlankLines(_, _)
\* text.split('\n\n'): cut at each occurrence of two newlines, leftmost first;
\* cur is the piece being read
SplitBlankLines(s, cur) ==
    IF s = <<>> THEN <<cur>>
    ELSE IF Len(s) >= 2 /\ s[1] = NL /\ s[2] = NL
         THEN <<cur>> \o SplitBlankLines(SubSeq(s, 3, Len(s)), <<>>)
         ELSE SplitBlankLines(Tail(s), Append(cur, Head(s)))

RECURSIVE StripNonEmpty(_)
\* [p.strip() for p in pieces if p.strip()]
StripNonEmpty(pieces) ==
    IF pieces = <<>> THEN <<>>
    ELSE LET p == Strip(Head(pieces)) IN
         IF p = <<>> THEN StripNonEmpty(Tail(pieces))
         ELSE <<p>> \o StripNonEmpty(Tail(pieces))

\* the paragraphs of split_by_paragraphs
Paragraphs(text) == StripNonEmpty(SplitBlankLines(text, <<>>))

RECURSIVE SplitAfterTerminators(_, _)
\* re.split(r'(?<=[.!?\n])\s*', text): a piece ends after each terminator
\* and the white space that follows it is consumed by the match.  The empty
\* pieces that re.split yields between adjacent matches are dropped by the
\* filter that follows, and are not produced here.
SplitAfterTerminators(s, cur) ==
    IF s = <<>> THEN <<cur>>
    ELSE IF IsTerminator(Head(s))
         THEN <<Append(cur, Head(s))>> \o SplitAfterTerminators(LStrip(Tail(s)), <<>>)
         ELSE SplitAfterTerminators(Tail(s), Append(cur, Head(s)))

\* the sentences of split_by_sentences
Sentences(text) == StripNonEmpty(SplitAfterTerminators(text, <<>>))

RECURSIVE Join(_, _)
\* sep.join(parts)
Join(parts, sep) ==
    IF parts = <<>> THEN <<>>
    ELSE IF Len(parts) = 1 THEN parts[1]
    ELSE parts[1] \o sep \o Join(Tail(parts), sep)

\* text[start:end] for 0 <= start <= end
Slice(text, start, end) ==
    SubSeq(text, start + 1, IF end < Len(text) THEN end ELSE Len(text))

\* Chunk(text, index, metadata): metadata is the reference of the chunk's dict;
\* parts records the units the text was joined from
Chunk(text, parts, index, ref) ==
    [text |-> text, index |-> index, metadata |-> ref, parts |-> parts]

\* the locals chunks and index of a split method, with the heap of dicts
NewChunks(heap) == [chunks |-> <<>>, index |-> 0, heap |-> heap]

\* metadata or {}
MetadataOrEmpty(heap, metadata) ==
    IF metadata = NoneRef THEN EmptyDict ELSE heap[metadata]

\* a variant that writes chunk_index into the caller's own dict and hands that
\* same object to every chunk
AppendChunkInPlace(st, text, parts, metadata) ==
    IF metadata = NoneRef
    THEN [chunks |-> Append(st.chunks, Chunk(text, parts, st.index, Len(st.heap) + 1)),
          index |-> st.index + 1,
          heap |-> Append(st.heap, {<<"chunk_index", st.index>>})]
    ELSE [chunks |-> Append(st.chunks, Chunk(text, parts, st.index, metadata)),
          index |-> st.index + 1,
          heap |-> [st.heap EXCEPT
                      ![metadata] = DictMerge(@, "chunk_index", st.index)]]

\* chunk_meta = {**(metadata or {}), "chunk_index": index}: a new dict object;
\* chunks.append(Chunk(text, index, chunk_meta)); index += 1
AppendChunk(st, text, parts, metadata) ==
    [chunks |-> Append(st.chunks, Chunk(text, parts, st.index, Len(st.heap) + 1)),
     index |-> st.index + 1,
     heap |-> Append(st.heap,
                     DictMerge(MetadataOrEmpty(st.heap, metadata),
                               "chunk_index", st.index))]

\* a variant that advances index also for a chunk that is dropped
EmitCountsSkipped(st, parts, sep, cfg) ==
    IF Len(Join(parts, sep)) >= cfg.min_chunk_size
    THEN AppendChunk(st, Join(parts, sep), parts, cfg.metadata)
    ELSE [st EXCEPT !.index = @ + 1]

\* the chunk is appended when it reaches min_chunk_size
Emit(st, parts, sep, cfg) ==
    IF Len(Join(parts, sep)) >= cfg.min_chunk_size
    THEN AppendChunk(st, Join(parts, sep), parts, cfg.metadata)
    ELSE st

RECURSIVE Accumulate(_, _, _, _, _, _, _)
\* the for loop and the final flush shared, line for line, by
\* split_by_paragraphs and split_by_sentences: units are collected in current
\* while current_length, the sum of their lengths, stays within chunk_size.
\* cfg is the chunker's configuration with the metadata argument.
Accumulate(units, sep, cfg, st, current, current_length, i) ==
    IF i > Len(units)
    THEN IF current # <<>> THEN Emit(st, current, sep, cfg) ELSE st
    ELSE LET unit == units[i] IN
         IF current_length + Len(unit) > cfg.chunk_size /\ current # <<>>
         THEN Accumulate(units, sep, cfg, Emit(st, current, sep, cfg),
                         <<unit>>, Len(unit), i + 1)
         ELSE Accumulate(units, sep, cfg, st, Append(current, unit),
                         current_length + Len(unit), i + 1)

\* Chunker.split_by_paragraphs(text, metadata)
SplitByParagraphs(text, cfg, heap) ==
    Accumulate(Paragraphs(text), <<NL, NL>>, cfg, NewChunks(heap), <<>>, 0, 1)

\* Chunker.split_by_sentences(text, metadata)
SplitBySentences(text, cfg, heap) ==
    Accumulate(Sentences(text), <<" ">>, cfg, NewChunks(heap), <<>>, 0, 1)

\* Chunker.split(text, metadata): the default strategy
Split(text, cfg, heap) == SplitByParagraphs(text, cfg, heap)

\* split_fixed: the window read at start, stripped
FixedWindow(text, cfg, start) == Strip(Slice(text, start, start + cfg.chunk_size))

\* split_fixed: start = end - overlap if overlap < chunk_size else end
FixedNextStart(cfg, start) ==
    IF cfg.overlap < cfg.chunk_size
    THEN start + cfg.chunk_size - cfg.overlap
    ELSE start + cfg.chunk_size

\* split_fixed: the body of one pass of the while loop on chunks and index
FixedBody(st, text, cfg, start) ==
    LET chunk_text == FixedWindow(text, cfg, start) IN
    IF chunk_text # <<>>
    THEN AppendChunk(st, chunk_text, <<chunk_text>>, cfg.metadata)
    ELSE st

---------------------------------------------------------------------------
(* VectorStore *)

\* A text is identified by the point its embedding lies at, on a line; the
\* collection is created without a distance setting, so the index measures
\* squared Euclidean distance between the query's point and the record's.
Points == {0, 1, 2}
\* the values of the metadata key "year"
Years == {2023, 2024}
\* where=None, or where={"year": y} with y the value of the filter
NoWhere == 0
Wheres == {NoWhere} \cup Years
\* the min_score arguments
MinScores == {-3, 0, 1}

Distance(query, point) == (query - point) * (query - point)

\* no call was made on the store yet
NoStoreOp == [kind |-> "none", ids |-> <<>>, stored |-> {}, raised |-> FALSE,
              top_k |-> 0, min_score |-> 0, results |-> <<>>]

\* collection.count()
Count(coll) == Cardinality(coll)
StoredIds(coll) == {r.id : r \in coll}

\* ids = [f"doc_{existing_count + i}" for i in range(len(texts))]: the id
\* doc_n is the number n
GenerateIds(existing_count, n) == [i \in 1..n |-> existing_count + (i - 1)]

\* the batches add_documents is handed: texts with their metadatas
Batches(n) == [1..n -> [point : Points, year : Years]]

\* collection.add(documents, metadatas, ids) of the index library, for ids
\* that are distinct from each other: a record whose id is already stored
\* is either left out (policy "ignore") or makes the whole call raise
\* (policy "raise"), depending on the library's version
CollectionAdd(coll, batch, ids, policy) ==
    LET fresh == {i \in 1..Len(ids) : ids[i] \notin StoredIds(coll)}
        added == {[id |-> ids[i], point |-> batch[i].point, year |-> batch[i].year] :
                    i \in fresh}
    IN IF policy = "raise" /\ fresh # 1..Len(ids)
       THEN [raised |-> TRUE, coll |-> coll]
       ELSE [raised |-> FALSE, coll |-> coll \cup added]

\* the records a where filter lets through
Matching(coll, where) == {r \in coll : where = NoWhere \/ r.year = where}

\* collection.query(query_texts=[query], n_results, where) of the index
\* library: the n_results nearest matching records, nearest first; records
\* at equal distance come in an order the library chooses
QueryResults(coll, query, n_results, where) ==
    LET cand == Matching(coll, where)
        k == IF n_results < Cardinality(cand) THEN n_results ELSE Cardinality(cand)
    IN { r \in [1..k -> cand] :
           /\ \A i, j \in 1..k : i < j =>
                 /\ r[i] # r[j]
                 /\ Distance(query, r[i].point) <= Distance(query, r[j].point)
           /\ \A c \in cand : (\A i \in 1..k : r[i] # c) =>
                 \A i \in 1..k : Distance(query, r[i].point) <= Distance(query, c.point) }

\* a variant that reports the distance itself as the score
ScoreIsDistance(distance) == distance

\* score = 1 - distance
Score(distance) == 1 - distance

SearchResult(r, query) ==
    [text |-> r.point, metadata |-> r.year,
     score |-> Score(Distance(query, r.point)), id |-> r.id]

RECURSIVE FilterKeepAll(_, _, _)
\* a variant that appends every record the index returned
FilterKeepAll(raw, query, min_score) ==
    IF raw = <<>> THEN <<>>
    ELSE <<SearchResult(Head(raw), query)>> \o FilterKeepAll(Tail(raw), query, min_score)

RECURSIVE FilterByScore(_, _, _)
\* the loop of search over the records the index returned: a SearchResult
\* is appended when its score reaches min_score
FilterByScore(raw, query, min_score) ==
    IF raw = <<>> THEN <<>>
    ELSE LET res == SearchResult(Head(raw), query)
             rest == FilterByScore(Tail(raw), query, min_score)
         IN IF res.score >= min_score THEN <<res>> \o rest ELSE rest

---------------------------------------------------------------------------
(* Embedder *)

\* the texts handed to embed_batch
EmbedTexts == {"t1", "t2", "t3"}
\* the vector the provider computes for a text, identified by the text
Embedding(text) == [of |-> text]
\* None in the list of embeddings
NoEmbedding == [of |-> "None"]

\* no embed_batch call was made
NoEmbedOp == [texts |-> <<>>, done |-> FALSE, called |-> FALSE,
              response |-> <<>>, result |-> <<>>]

\* the orders in which the provider may return the items of n inputs
ReturnOrders(n) ==
    { f \in [1..n -> 1..n] : \A i, j \in 1..n : i # j => f[i] # f[j] }

\* response.data for the inputs texts, returned in the order perm: each item
\* carries the index of its input, counted from 0, and its embedding
ProviderData(texts, perm) ==
    [k \in 1..Len(texts) |-> [index |-> perm[k] - 1, embedding |-> Embedding(texts[perm[k]])]]

\* A plausible bug: the embeddings are collected in the order returned
FillAppend(embeddings, data) == [k \in 1..Len(data) |-> data[k].embedding]

RECURSIVE FillByIndex(_, _)
\* for item in response.data: embeddings[item.index] = item.embedding
FillByIndex(embeddings, data) ==
    IF data = <<>> THEN embeddings
    ELSE FillByIndex([embeddings EXCEPT ![Head(data).index + 1] = Head(data).embedding],
                     Tail(data))

\* Embedder.embed_batch(texts), the provider returning its items in the
\* order perm: whether the provider was called, and the list returned
EmbedBatch(texts, perm) ==
    IF texts = <<>>
    THEN [called |-> FALSE, response |-> <<>>, result |-> <<>>]
    ELSE LET data == ProviderData(texts, perm) IN
         [called |-> TRUE, response |-> data,
          result |-> FillByIndex([i \in 1..Len(texts) |-> NoEmbedding], data)]

---------------------------------------------------------------------------
(* RetrievalTool *)

\* year=None
NoYear == 0
\* the default of RetrievalTool.__init__ for top_k
DefaultTopK == 3

\* what str(e) is when a search fails, for example because the embedding
\* provider raises
SearchErrorText == <<"embedding request failed">>
\* the query, the text of a record and a score as they appear in a string
QueryText(query) == <<"query 0", "query 1", "query 2">>[query + 1]
DocText(point) == <<"text 0", "text 1", "text 2">>[point + 1]
\* f"{score:.2f}"
ScoreText(score) ==
    IF score = 1 THEN "1.00" ELSE IF score = 0 THEN "0.00" ELSE "-3.00"
\* str(i) for the numbers of the results
Numeral(i) == <<"1", "2", "3", "4">>[i]

\* no RetrievalTool.execute call was made
NoRetrievalOp == [done |-> FALSE, tool |-> [top_k |-> 0, min_score |-> 0],
                  query |-> 0, year |-> NoYear, searches |-> <<>>,
                  raised |-> FALSE, value |-> <<>>]

\* one call of self.store.search by the tool: its arguments, whether it
\* raised, and the results it returned; raw is what the index returns
StoreSearch(tool, query, where, raw, fails) ==
    [query |-> query, top_k |-> tool.top_k, where |-> where,
     min_score |-> tool.min_score, raised |-> fails,
     results |-> IF fails THEN <<>> ELSE FilterByScore(raw, query, tool.min_score)]

\* the lines of one result: its number, source page (the records carry no
\* page), score and text
FormatResult(i, result) ==
    <<"[", Numeral(i), "]", "page", "unknown", "score", ScoreText(result.score),
      "content", DocText(result.text)>>

RECURSIVE FormatResults(_, _)
\* the lines of the results from the i-th on
FormatResults(results, i) ==
    IF i > Len(results) THEN <<>>
    ELSE FormatResult(i, results[i]) \o FormatResults(results, i + 1)

\* the string execute returns for the results of its last search
FormatOutput(query, results) ==
    IF results = <<>>
    THEN <<"nothing found for", QueryText(query)>>
    ELSE <<"found", Numeral(Len(results))>> \o FormatResults(results, 1)

\* A plausible bug: a failed filtered search is retried without the filter
RetrievalExecuteRetry(coll, tool, query, year, raw1, raw2, fail) ==
    LET where == IF year # NoYear THEN year ELSE NoWhere
        s1 == StoreSearch(tool, query, where, raw1, fail = 1)
        s2 == StoreSearch(tool, query, NoWhere, raw2, fail = 2)
    IN IF s1.results = <<>> /\ year # NoYear
       THEN IF s2.raised
            THEN [searches |-> <<s1, s2>>, raised |-> TRUE, value |-> SearchErrorText]
            ELSE [searches |-> <<s1, s2>>, raised |-> FALSE,
                  value |-> FormatOutput(query, s2.results)]
       ELSE IF s1.raised
            THEN [searches |-> <<s1>>, raised |-> TRUE, value |-> SearchErrorText]
            ELSE [searches |-> <<s1>>, raised |-> FALSE,
                  value |-> FormatOutput(query, s1.results)]

\* A plausible bug: no results gives an empty string
RetrievalExecuteEmpty(coll, tool, query, year, raw1, raw2, fail) ==
    LET where == IF year # NoYear THEN year ELSE NoWhere
        s1 == StoreSearch(tool, query, where, raw1, fail = 1)
        s2 == StoreSearch(tool, query, NoWhere, raw2, fail = 2)
    IN IF s1.raised
       THEN [searches |-> <<s1>>, raised |-> TRUE, value |-> SearchErrorText]
       ELSE IF s1.results = <<>> /\ year # NoYear
            THEN IF s2.raised
                 THEN [searches |-> <<s1, s2>>, raised |-> TRUE, value |-> SearchErrorText]
                 ELSE [searches |-> <<s1, s2>>, raised |-> FALSE,
                       value |-> FormatResults(s2.results, 1)]
            ELSE [searches |-> <<s1>>, raised |-> FALSE,
                  value |-> FormatResults(s1.results, 1)]

\* A plausible bug: the retry is made whenever the first search is empty
RetrievalExecuteAlwaysRetry(coll, tool, query, year, raw1, raw2, fail) ==
    LET where == IF year # NoYear THEN year ELSE NoWhere
        s1 == StoreSearch(tool, query, where, raw1, fail = 1)
        s2 == StoreSearch(tool, query, NoWhere, raw2, fail = 2)
    IN IF s1.raised
       THEN [searches |-> <<s1>>, raised |-> TRUE, value |-> SearchErrorText]
       ELSE IF s1.results = <<>>
            THEN IF s2.raised
                 THEN [searches |-> <<s1, s2>>, raised |-> TRUE, value |-> SearchErrorText]
                 ELSE [searches |-> <<s1, s2>>, raised |-> FALSE,
                       value |-> FormatOutput(query, s2.results)]
            ELSE [searches |-> <<s1>>, raised |-> FALSE,
                  value |-> FormatOutput(query, s1.results)]

\* RetrievalTool.execute(query, year) on the collection coll.  raw1 and raw2
\* are what the index returns to the filtered and to the unfiltered query;
\* fail tells which search raises: none (0), the first (1), the second (2).
\* The searches made, whether execute raised, and the string returned (or
\* the str() of the exception).
RetrievalExecute(coll, tool, query, year, raw1, raw2, fail) ==
    LET where == IF year # NoYear THEN year ELSE NoWhere
        s1 == StoreSearch(tool, query, where, raw1, fail = 1)
        s2 == StoreSearch(tool, query, NoWhere, raw2, fail = 2)
    IN IF s1.raised
       THEN [searches |-> <<s1>>, raised |-> TRUE, value |-> SearchErrorText]
       ELSE IF s1.results = <<>> /\ year # NoYear
            THEN IF s2.raised
                 THEN [searches |-> <<s1, s2>>, raised |-> TRUE, value |-> SearchErrorText]
                 ELSE [searches |-> <<s1, s2>>, raised |-> FALSE,
                       value |-> FormatOutput(query, s2.results)]
            ELSE [searches |-> <<s1>>, raised |-> FALSE,
                  value |-> FormatOutput(query, s1.results)]

\* the record kept of a call of execute
RetrievalRecord(tool, query, year, res) ==
    [done |-> TRUE, tool |-> tool, query |-> query, year |-> year,
     searches |-> res.searches, raised |-> res.raised, value |-> res.value]
\* no run invocation was started
NoRuns == <<>>

---------------------------------------------------------------------------
(* AgentOrchestrator *)

\* the tool_calls of one response: k calls with fresh ids first+1..first+k
ToolCallLists(first, k) ==
    { [i \in 1..k |-> [id |-> first + i, name |-> names[i], arguments |-> args[i]]] :
        names \in [1..k -> CallNames], args \in [1..k -> ArgPayloads] }

\* what a reasoning call came back with: a message, or a provider failure
Response(content, calls) == [status |-> "ok", content |-> content, tool_calls |-> calls]
ProviderFailure == [status |-> "error", content |-> None, tool_calls |-> <<>>]

\* one reasoning call: what the service was sent and what it answered
Request(kind, declared, history, response) ==
    [kind |-> kind, declared |-> declared, history |-> history, response |-> response]

\* A plausible bug: every observation carries the id of the first call of the
\* response
ToolMessageFirstId(call, result) ==
    Msg("tool", Str(result), <<>>, IF call.id > 1 THEN call.id - 1 ELSE call.id)

\* the observation appended for a tool call:
\* {"role": "tool", "tool_call_id": tool_call.id, "content": str(result)}
ToolMessage(call, result) == Msg("tool", Str(result), <<>>, call.id)

\* the value of pc after the body of the for loop ended for `it`:
\* range(1, max_iterations + 1) yields it + 1 or is exhausted
NextIteration(it, maxIt) == IF it + 1 <= maxIt THEN "think" ELSE "summarize"
\* and the value of the loop variable then (it keeps its last value when the
\* range is exhausted)
LoopVariable(it, maxIt) == IF it + 1 <= maxIt THEN it + 1 ELSE it

\* no embedder, no retrieval tool and no concurrent run is in use
IdleOthers ==
    /\ embedOp = NoEmbedOp
    /\ retrievalOp = NoRetrievalOp
    /\ runs = NoRuns
    /\ histories = <<>>

\* a new ToolRegistry and a new AgentOrchestrator
InitAgent ==
    /\ registry = <<>>
    /\ lastRegistered = [n \in ToolNames |-> [tool |-> NoTool, times |-> 0]]
    /\ regLog = [tools |-> <<>>, names |-> <<>>]
    /\ max_iterations \in 0..MaxIter
    /\ pc = "idle"
    /\ iteration = 0
    /\ messages = <<>>
    /\ tools = <<>>
    /\ pending = <<>>
    /\ callIdx = 0
    /\ answer = None
    /\ error = "none"
    /\ nextId = 0
    /\ requests = <<>>
    /\ lastExec = NoExec

Init ==
    /\ InitAgent
    /\ chunkIn = NoChunkIn
    /\ chunkDone = FALSE
    /\ chunkOut = <<>>
    /\ chunkIndex = 0
    /\ chunkStart = 0
    /\ chunkHeap = <<>>
    /\ collection = {}
    /\ storeOp = NoStoreOp
    /\ IdleOthers

\* the registration log after tool t was passed to register.  tools: the
\* tools now registered, each at the time it was first passed to register
\* since it is registered (a tool replaced under its name leaves the log);
\* names: the names, each at the time it was first registered
LogRegistration(log, t) ==
    [tools |-> IF \E i \in 1..Len(log.tools) : log.tools[i] = t
               THEN log.tools
               ELSE Append(SelectSeq(log.tools, LAMBDA u : u.name # t.name), t),
     names |-> IF \E i \in 1..Len(log.names) : log.names[i] = t.name
               THEN log.names
               ELSE Append(log.names, t.name)]

\* AgentOrchestrator.register_tool / ToolRegistry.register
RegisterTool(t) ==
    /\ pc = "idle"
    /\ registry' = Register(registry, t)
    /\ lastRegistered' = [lastRegistered EXCEPT ![t.name] =
                              [tool |-> t, times |-> IF @.times = 0 THEN 1 ELSE 2]]
    /\ regLog' = LogRegistration(regLog, t)
    /\ UNCHANGED <<embedVars, retrVars, concVars, orchVars, lastExec, chunkVars, storeVars>>

\* ToolRegistry.execute called directly (as the tests do)
RegistryExecute(name, outcome) ==
    /\ pc = "idle"
    /\ UNCHANGED <<embedVars, retrVars, concVars, regVars, orchVars, chunkVars, storeVars>>
    /\ lastExec' = ExecRecord(registry, name, outcome,
                              Execute(registry, name, outcome), registry')

\* run, up to the first reasoning call: the history is initialised, the tool
\* declarations are taken, the for loop is entered (or skipped when
\* max_iterations is 0)
RunStart ==
    /\ pc = "idle"
    /\ messages' = << Msg("system", Str(SystemPrompt), <<>>, 0),
                      Msg("user", Str(Question), <<>>, 0) >>
    /\ tools' = GetOpenAITools(registry)
    /\ iteration' = LoopVariable(0, max_iterations)
    /\ pc' = NextIteration(0, max_iterations)
    /\ UNCHANGED <<embedVars, retrVars, concVars, regVars, max_iterations, pending, callIdx, answer, error,
                   nextId, requests, lastExec, chunkVars, storeVars>>

\* the reasoning call of an iteration fails: the exception leaves run
ThinkFails ==
    /\ pc = "think"
    /\ requests' = Append(requests, Request("tools", tools, messages, ProviderFailure))
    /\ pc' = "raised"
    /\ error' = "ProviderError"
    /\ UNCHANGED <<embedVars, retrVars, concVars, regVars, max_iterations, iteration, messages, tools, pending,
                   callIdx, answer, nextId, lastExec, chunkVars, storeVars>>

\* A plausible bug: a response with text content is taken for the final
\* answer although it carries tool calls
ThinkToolCallsReturnContent ==
    /\ pc = "think"
    /\ \E content \in Contents, k \in 1..(MaxToolCalls - nextId) :
         \E calls \in ToolCallLists(nextId, k) :
            /\ requests' = Append(requests, Request("tools", tools, messages,
                                                    Response(content, calls)))
            /\ nextId' = nextId + k
            /\ IF content # None /\ content.text # <<>>
               THEN /\ answer' = content
                    /\ pc' = "returned"
                    /\ UNCHANGED <<messages, pending, callIdx>>
               ELSE /\ messages' = Append(messages, Msg("assistant", content, calls, 0))
                    /\ pending' = calls
                    /\ callIdx' = 1
                    /\ pc' = "dispatch"
                    /\ answer' = answer
    /\ UNCHANGED <<embedVars, retrVars, concVars, regVars, max_iterations, iteration, tools, error,
                   lastExec, chunkVars, storeVars>>

\* the response carries tool calls: the assistant message is appended and
\* the inner for loop starts
ThinkToolCalls ==
    /\ pc = "think"
    /\ \E content \in Contents, k \in 1..(MaxToolCalls - nextId) :
         \E calls \in ToolCallLists(nextId, k) :
            /\ messages' = Append(messages, Msg("assistant", content, calls, 0))
            /\ pending' = calls
            /\ nextId' = nextId + k
            /\ requests' = Append(requests, Request("tools", tools, messages,
                                                    Response(content, calls)))
    /\ callIdx' = 1
    /\ pc' = "dispatch"
    /\ UNCHANGED <<embedVars, retrVars, concVars, regVars, max_iterations, iteration, tools, answer, error,
                   lastExec, chunkVars, storeVars>>

\* A plausible bug: an answer without content is not returned, the loop goes on
ThinkFinalRetryEmpty ==
    /\ pc = "think"
    /\ \E content \in Contents :
         /\ requests' = Append(requests, Request("tools", tools, messages,
                                                 Response(content, <<>>)))
         /\ IF content = None \/ content.text = <<>>
            THEN /\ pc' = NextIteration(iteration, max_iterations)
                 /\ iteration' = LoopVariable(iteration, max_iterations)
                 /\ answer' = answer
            ELSE /\ pc' = "returned"
                 /\ iteration' = iteration
                 /\ answer' = content
    /\ UNCHANGED <<embedVars, retrVars, concVars, regVars, max_iterations, messages, tools, pending,
                   callIdx, error, nextId, lastExec, chunkVars, storeVars>>

\* the response carries no tool calls: its content is returned
ThinkFinal ==
    /\ pc = "think"
    /\ \E content \in Contents :
         /\ answer' = content
         /\ requests' = Append(requests, Request("tools", tools, messages,
                                                 Response(content, <<>>)))
    /\ pc' = "returned"
    /\ UNCHANGED <<embedVars, retrVars, concVars, regVars, max_iterations, iteration, messages, tools, pending,
                   callIdx, error, nextId, lastExec, chunkVars, storeVars>>

\* json.loads(tool_call.function.arguments): "ok", or the exception raised
DecodeArguments(arguments) ==
    IF arguments = "malformed" THEN "JSONDecodeError" ELSE "ok"

\* the RetrievalTool a run uses: built with the defaults of __init__
RunTool == [top_k |-> DefaultTopK, min_score |-> 0]
\* the arguments the reasoning service may give to search_report
RunQueries == {0}
RunYears == {NoYear, 2023}

\* what the RetrievalTool's execute does on one call of a run, with the
\* record of the searches it made: a call without its query argument raises
\* before any search, the other calls are those of RetrievalExecute
RetrievalRuns(coll) ==
    { [outcome |-> [kind |-> "raise", text |-> <<"missing argument">>],
       retrieval |-> RetrievalRecord(RunTool, 0, NoYear,
                        [searches |-> <<>>, raised |-> TRUE,
                         value |-> <<"missing argument">>])] }
    \cup
    UNION { UNION { {
        LET res == RetrievalExecute(coll, RunTool, query, year, raw1, raw2, fail) IN
        [outcome |-> [kind |-> IF res.raised THEN "raise" ELSE "return",
                      text |-> res.value],
         retrieval |-> RetrievalRecord(RunTool, query, year, res)]
        : raw1 \in QueryResults(coll, query, RunTool.top_k,
                                IF year # NoYear THEN year ELSE NoWhere),
          raw2 \in QueryResults(coll, query, RunTool.top_k, NoWhere) }
        : query \in RunQueries, year \in RunYears } : fail \in 0..2 }

\* what the execute of the given tool does on one call, and the record of
\* the last RetrievalTool.execute after it
ToolRuns(tool, coll, last) ==
    IF tool # NoTool /\ tool.id = "RetrievalTool"
    THEN RetrievalRuns(coll)
    ELSE { [outcome |-> o, retrieval |-> last] : o \in ToolOutcomes }

\* one pass of the inner for loop: decode the arguments, execute the tool,
\* append the observation; after the last call the next iteration starts
DispatchToolCall ==
    /\ pc = "dispatch"
    /\ UNCHANGED <<embedVars, concVars, regVars, max_iterations, tools, pending, answer, nextId,
                   requests, chunkVars, storeVars>>
    /\ LET call == pending[callIdx]
           decoded == DecodeArguments(call.arguments)
       IN
       IF decoded # "ok"
       THEN /\ pc' = "raised"
            /\ error' = decoded
            /\ UNCHANGED <<messages, callIdx, iteration, lastExec, retrievalOp>>
       ELSE \E toolRun \in ToolRuns(Get(registry, call.name), collection, retrievalOp) :
            LET outcome == toolRun.outcome
                res == Execute(registry, call.name, outcome) IN
            /\ lastExec' = ExecRecord(registry, call.name, outcome, res, registry')
            /\ retrievalOp' = toolRun.retrieval
            /\ IF res.raised
               THEN /\ pc' = "raised"
                    /\ error' = "ToolException"
                    /\ UNCHANGED <<messages, callIdx, iteration>>
               ELSE /\ messages' = Append(messages, ToolMessage(call, res.value))
                    /\ error' = error
                    /\ IF callIdx < Len(pending)
                       THEN /\ callIdx' = callIdx + 1
                            /\ pc' = "dispatch"
                            /\ iteration' = iteration
                       ELSE /\ callIdx' = callIdx
                            /\ pc' = NextIteration(iteration, max_iterations)
                            /\ iteration' = LoopVariable(iteration, max_iterations)

\* A plausible bug: the final call still declares the tools
SummarizeWithTools ==
    /\ pc = "summarize"
    /\ messages' = Append(messages, Msg("user", Str(SummaryDirective), <<>>, 0))
    /\ \/ /\ \E content \in Contents :
               /\ answer' = content
               /\ requests' = Append(requests, Request("summary", tools, messages',
                                                       Response(content, <<>>)))
          /\ pc' = "returned"
          /\ error' = error
       \/ /\ requests' = Append(requests, Request("summary", tools, messages',
                                                  ProviderFailure))
          /\ pc' = "raised"
          /\ error' = "ProviderError"
          /\ answer' = answer
    /\ UNCHANGED <<embedVars, retrVars, concVars, regVars, max_iterations, iteration, tools, pending, callIdx,
                   nextId, lastExec, chunkVars, storeVars>>

\* the budget is exhausted: the directive is appended and the final call,
\* without tool declarations, is issued; it answers or fails
Summarize ==
    /\ pc = "summarize"
    /\ messages' = Append(messages, Msg("user", Str(SummaryDirective), <<>>, 0))
    /\ \/ /\ \E content \in Contents :
               /\ answer' = content
               /\ requests' = Append(requests, Request("summary", <<>>, messages',
                                                       Response(content, <<>>)))
          /\ pc' = "returned"
          /\ error' = error
       \/ /\ requests' = Append(requests, Request("summary", <<>>, messages',
                                                  ProviderFailure))
          /\ pc' = "raised"
          /\ error' = "ProviderError"
          /\ answer' = answer
    /\ UNCHANGED <<embedVars, retrVars, concVars, regVars, max_iterations, iteration, tools, pending, callIdx,
                   nextId, lastExec, chunkVars, storeVars>>

Next ==
    \/ \E t \in Tools : RegisterTool(t)
    \/ RunStart
    \/ ThinkFails
    \/ ThinkToolCalls
    \/ ThinkFinal
    \/ DispatchToolCall
    \/ Summarize

Spec == Init /\ [][Next]_vars

\* texts of at most n characters
RECURSIVE Texts(_)
Texts(n) ==
    IF n = 0 THEN {<<>>}
    ELSE LET shorter == Texts(n - 1) IN
         shorter \cup { Append(t, c) : t \in {u \in shorter : Len(u) = n - 1}, c \in Chars }

\* the two-paragraph text "P1 sentence one. P1 sentence two.\n\nP2 sentence one."
ScenarioText ==
    <<"P", "1", " ", "s", "e", "n", "t", "e", "n", "c", "e", " ",
      "o", "n", "e", ".", " ", "P", "1", " ", "s", "e", "n", "t",
      "e", "n", "c", "e", " ", "t", "w", "o", ".", NL, NL, "P",
      "2", " ", "s", "e", "n", "t", "e", "n", "c", "e", " ", "o",
      "n", "e", ".">>

\* Chunker(chunk_size=40, overlap=0), the other settings at their defaults,
\* handed the two-paragraph text through split
ScenarioInput ==
    [strategy |-> "paragraphs", text |-> ScenarioText, chunk_size |-> 40,
     overlap |-> 0, min_chunk_size |-> DefaultMinChunkSize,
     metadata |-> NoneRef, caller_meta |-> EmptyDict]

\* the dicts a caller passes as metadata
MetaDicts == {EmptyDict, {<<"page", 1>>}, {<<"page", 1>>, <<"chunk_index", 7>>}}

\* calls of split (split_by_paragraphs) and split_by_sentences without metadata
UnitInputs ==
    [strategy : {"paragraphs", "sentences"}, text : Texts(MaxTextLen),
     chunk_size : 0..MaxChunkSize, overlap : 0..MaxOverlap,
     min_chunk_size : 0..MaxMinChunkSize,
     metadata : {NoneRef}, caller_meta : {EmptyDict}]

\* calls of split_fixed without metadata; split_fixed never reads min_chunk_size
FixedInputs ==
    [strategy : {"fixed"}, text : Texts(MaxTextLen),
     chunk_size : 0..MaxChunkSize, overlap : 0..MaxOverlap,
     min_chunk_size : {DefaultMinChunkSize},
     metadata : {NoneRef}, caller_meta : {EmptyDict}]

\* calls that pass a metadata dict, on shorter texts
MetaInputs ==
    [strategy : {"paragraphs", "sentences", "fixed"}, text : Texts(MaxMetaTextLen),
     chunk_size : {1, MaxChunkSize}, overlap : {0}, min_chunk_size : {0},
     metadata : {CallerRef}, caller_meta : MetaDicts]

\* a Chunker is constructed and about to be handed a text
InitChunk ==
    /\ InitAgent
    /\ max_iterations = 0
    /\ chunkIn \in UnitInputs \cup FixedInputs \cup MetaInputs \cup {ScenarioInput}
    /\ chunkDone = FALSE
    /\ chunkOut = <<>>
    /\ chunkIndex = 0
    /\ chunkStart = 0
    /\ chunkHeap = IF chunkIn.metadata = NoneRef THEN <<>> ELSE <<chunkIn.caller_meta>>
    /\ collection = {}
    /\ storeOp = NoStoreOp
    /\ IdleOthers

\* Chunker(...).split(text, metadata), which is split_by_paragraphs(text, metadata)
CallSplitByParagraphs ==
    /\ ~chunkDone
    /\ chunkIn.strategy = "paragraphs"
    /\ LET st == Split(chunkIn.text, chunkIn, chunkHeap) IN
          /\ chunkOut' = st.chunks
          /\ chunkIndex' = st.index
          /\ chunkHeap' = st.heap
    /\ chunkDone' = TRUE
    /\ UNCHANGED <<embedVars, retrVars, concVars, regVars, orchVars, lastExec, storeVars, chunkIn, chunkStart>>

\* Chunker(...).split_by_sentences(text, metadata)
CallSplitBySentences ==
    /\ ~chunkDone
    /\ chunkIn.strategy = "sentences"
    /\ LET st == SplitBySentences(chunkIn.text, chunkIn, chunkHeap) IN
          /\ chunkOut' = st.chunks
          /\ chunkIndex' = st.index
          /\ chunkHeap' = st.heap
    /\ chunkDone' = TRUE
    /\ UNCHANGED <<embedVars, retrVars, concVars, regVars, orchVars, lastExec, storeVars, chunkIn, chunkStart>>

\* Chunker(...).split_fixed(text, metadata): one pass of `while start < len(text)`
SplitFixedStep ==
    /\ ~chunkDone
    /\ chunkIn.strategy = "fixed"
    /\ chunkStart < Len(chunkIn.text)
    /\ LET st == FixedBody([chunks |-> chunkOut, index |-> chunkIndex, heap |-> chunkHeap],
                           chunkIn.text, chunkIn, chunkStart) IN
          /\ chunkOut' = st.chunks
          /\ chunkIndex' = st.index
          /\ chunkHeap' = st.heap
    /\ chunkStart' = FixedNextStart(chunkIn, chunkStart)
    /\ UNCHANGED <<embedVars, retrVars, concVars, regVars, orchVars, lastExec, storeVars, chunkIn, chunkDone>>

\* split_fixed: the loop condition fails and chunks is returned
SplitFixedReturn ==
    /\ ~chunkDone
    /\ chunkIn.strategy = "fixed"
    /\ chunkStart >= Len(chunkIn.text)
    /\ chunkDone' = TRUE
    /\ UNCHANGED <<embedVars, retrVars, concVars, regVars, orchVars, lastExec, storeVars, chunkIn, chunkOut,
                   chunkIndex, chunkStart, chunkHeap>>

NextChunk ==
    \/ CallSplitByParagraphs
    \/ CallSplitBySentences
    \/ SplitFixedStep
    \/ SplitFixedReturn

SpecChunk == InitChunk /\ [][NextChunk]_vars

\* the registry used on its own
NextRegistry ==
    \/ \E t \in Tools : RegisterTool(t)
    \/ \E n \in CallNames, o \in ToolOutcomes : RegistryExecute(n, o)

SpecRegistry == Init /\ [][NextRegistry]_vars

\* VectorStore: the calls made on it

\* VectorStore.add_documents(texts, metadatas) without ids
AddDocuments(batch, policy) ==
    /\ Count(collection) + Len(batch) <= MaxDocs
    /\ LET ids == GenerateIds(Count(collection), Len(batch))
           res == CollectionAdd(collection, batch, ids, policy)
       IN /\ collection' = res.coll
          /\ storeOp' = [NoStoreOp EXCEPT !.kind = "add", !.ids = ids,
                                          !.stored = StoredIds(collection),
                                          !.raised = res.raised]
    /\ UNCHANGED <<embedVars, retrVars, concVars, regVars, orchVars, lastExec, chunkVars>>

\* VectorStore.delete(ids)
Delete(ids) ==
    /\ collection' = {r \in collection : r.id \notin ids}
    /\ storeOp' = [NoStoreOp EXCEPT !.kind = "delete"]
    /\ UNCHANGED <<embedVars, retrVars, concVars, regVars, orchVars, lastExec, chunkVars>>

\* VectorStore.clear(): the collection is deleted and created again
Clear ==
    /\ collection' = {}
    /\ storeOp' = [NoStoreOp EXCEPT !.kind = "clear"]
    /\ UNCHANGED <<embedVars, retrVars, concVars, regVars, orchVars, lastExec, chunkVars>>

\* VectorStore.search(query, top_k, where, min_score)
Search(query, top_k, where, min_score) ==
    /\ \E raw \in QueryResults(collection, query, top_k, where) :
          storeOp' = [NoStoreOp EXCEPT !.kind = "search", !.top_k = top_k,
                                      !.min_score = min_score,
                                      !.results = FilterByScore(raw, query, min_score)]
    /\ UNCHANGED <<embedVars, retrVars, concVars, regVars, orchVars, lastExec, chunkVars, collection>>

\* a VectorStore on a new collection
InitStore ==
    /\ InitAgent
    /\ max_iterations = 0
    /\ chunkIn = NoChunkIn
    /\ chunkDone = FALSE
    /\ chunkOut = <<>>
    /\ chunkIndex = 0
    /\ chunkStart = 0
    /\ chunkHeap = <<>>
    /\ collection = {}
    /\ storeOp = NoStoreOp
    /\ IdleOthers

NextStore ==
    \/ \E n \in 1..MaxDocs, policy \in {"ignore", "raise"} :
          \E batch \in Batches(n) : AddDocuments(batch, policy)
    \/ \E ids \in (SUBSET StoredIds(collection)) \ {{}} : Delete(ids)
    \/ Clear
    \/ \E query \in Points, top_k \in 1..MaxTopK, where \in Wheres,
          min_score \in MinScores : Search(query, top_k, where, min_score)

SpecStore == InitStore /\ [][NextStore]_vars

\* Embedder: a call of embed_batch

\* sequences of at most n texts
EmbedInputs(n) == UNION { [1..k -> EmbedTexts] : k \in 0..n }

\* an Embedder about to be handed a list of texts
InitEmbed ==
    /\ InitAgent
    /\ max_iterations = 0
    /\ chunkIn = NoChunkIn
    /\ chunkDone = FALSE
    /\ chunkOut = <<>>
    /\ chunkIndex = 0
    /\ chunkStart = 0
    /\ chunkHeap = <<>>
    /\ collection = {}
    /\ storeOp = NoStoreOp
    /\ embedOp \in { [NoEmbedOp EXCEPT !.texts = t] : t \in EmbedInputs(MaxBatch) }
    /\ retrievalOp = NoRetrievalOp
    /\ runs = NoRuns
    /\ histories = <<>>

\* Embedder.embed_batch(texts)
CallEmbedBatch ==
    /\ ~embedOp.done
    /\ \E perm \in ReturnOrders(Len(embedOp.texts)) :
          LET res == EmbedBatch(embedOp.texts, perm) IN
          embedOp' = [embedOp EXCEPT !.done = TRUE, !.called = res.called,
                                     !.response = res.response, !.result = res.result]
    /\ UNCHANGED <<regVars, orchVars, lastExec, chunkVars, storeVars, retrVars, concVars>>

NextEmbed == CallEmbedBatch

SpecEmbed == InitEmbed /\ [][NextEmbed]_vars

\* AgentOrchestrator: several run invocations in progress on one orchestrator.
\* Each invocation has its own frame (the entry of runs); the lists the
\* frames refer to by their variable `messages` are the objects of histories.

RunLabel(r) == <<"run 1", "run 2", "run 3">>[r]
\* user_question of invocation r
QuestionOf(r) == <<"question of", RunLabel(r)>>
\* what the reasoning service answers to invocation r
ThoughtOf(r) == Str(<<"thought of", RunLabel(r)>>)
AnswerOf(r) == Str(<<"answer of", RunLabel(r)>>)
\* the id of the tool call answered to invocation r in iteration it
CallIdOf(r, it) == (r - 1) * MaxIter + it
\* what the tool does in these runs
ConcOutcomes == { o \in ToolOutcomes : o.text # <<>> }

\* the frame of an invocation that has not started
IdleRun == [pc |-> "idle", iteration |-> 0, messages |-> NoneRef, tools |-> <<>>,
            pending |-> <<>>, callIdx |-> 0, answer |-> None, error |-> "none",
            own |-> <<>>]

\* A plausible bug: the history is an attribute of the orchestrator, the one
\* list is reset by every invocation
AllocShared(heap, initial) ==
    IF heap = <<>>
    THEN [heap |-> <<initial>>, ref |-> 1]
    ELSE [heap |-> [heap EXCEPT ![1] = initial], ref |-> 1]

\* messages = [...]: a new list object
AllocHistory(heap, initial) ==
    [heap |-> Append(heap, initial), ref |-> Len(heap) + 1]

\* messages.append(m) by invocation r; own records what r itself appended
AppendOwn(run, m) == [run EXCEPT !.own = Append(@, m)]

InitConcurrent ==
    /\ registry = Register(<<>>, [id |-> "CalculatorTool", name |-> "calculator"])
    /\ lastRegistered = [n \in ToolNames |->
                            IF n = "calculator"
                            THEN [tool |-> [id |-> "CalculatorTool", name |-> "calculator"],
                                  times |-> 1]
                            ELSE [tool |-> NoTool, times |-> 0]]
    /\ regLog = LogRegistration([tools |-> <<>>, names |-> <<>>],
                                [id |-> "CalculatorTool", name |-> "calculator"])
    /\ max_iterations \in 0..MaxIter
    /\ pc = "idle"
    /\ iteration = 0
    /\ messages = <<>>
    /\ tools = <<>>
    /\ pending = <<>>
    /\ callIdx = 0
    /\ answer = None
    /\ error = "none"
    /\ nextId = 0
    /\ requests = <<>>
    /\ lastExec = NoExec
    /\ chunkIn = NoChunkIn
    /\ chunkDone = FALSE
    /\ chunkOut = <<>>
    /\ chunkIndex = 0
    /\ chunkStart = 0
    /\ chunkHeap = <<>>
    /\ collection = {}
    /\ storeOp = NoStoreOp
    /\ embedOp = NoEmbedOp
    /\ retrievalOp = NoRetrievalOp
    /\ runs = [r \in 1..MaxRuns |-> IdleRun]
    /\ histories = <<>>

ConcUnchanged ==
    UNCHANGED <<regVars, orchVars, lastExec, chunkVars, storeVars, embedVars, retrVars>>

\* invocation r, up to its first reasoning call
ConcRunStart(r) ==
    /\ runs[r].pc = "idle"
    /\ LET initial == << Msg("system", Str(SystemPrompt), <<>>, 0),
                         Msg("user", Str(QuestionOf(r)), <<>>, 0) >>
           new == AllocHistory(histories, initial)
       IN /\ histories' = new.heap
          /\ runs' = [runs EXCEPT ![r] =
                         [@ EXCEPT !.messages = new.ref,
                                   !.own = initial,
                                   !.tools = GetOpenAITools(registry),
                                   !.iteration = LoopVariable(0, max_iterations),
                                   !.pc = NextIteration(0, max_iterations)]]
    /\ ConcUnchanged

\* a reasoning call of invocation r fails: the exception leaves run
ConcThinkFails(r) ==
    /\ runs[r].pc \in {"think", "summarize"}
    /\ IF runs[r].pc = "summarize"
       THEN LET m == Msg("user", Str(SummaryDirective), <<>>, 0) IN
            /\ histories' = [histories EXCEPT ![runs[r].messages] = Append(@, m)]
            /\ runs' = [runs EXCEPT ![r] = [AppendOwn(@, m) EXCEPT !.pc = "raised",
                                                    !.error = "ProviderError"]]
       ELSE /\ histories' = histories
            /\ runs' = [runs EXCEPT ![r] = [@ EXCEPT !.pc = "raised",
                                                    !.error = "ProviderError"]]
    /\ ConcUnchanged

\* the response of invocation r carries a tool call: the assistant message
\* is appended to r's list
ConcThinkToolCalls(r) ==
    /\ runs[r].pc = "think"
    /\ LET calls == << [id |-> CallIdOf(r, runs[r].iteration), name |-> "calculator",
                        arguments |-> "object"] >>
           m == Msg("assistant", ThoughtOf(r), calls, 0)
       IN /\ histories' = [histories EXCEPT ![runs[r].messages] = Append(@, m)]
          /\ runs' = [runs EXCEPT ![r] = [AppendOwn(@, m) EXCEPT !.pending = calls,
                                                  !.callIdx = 1,
                                                  !.pc = "dispatch"]]
    /\ ConcUnchanged

\* the response of invocation r carries no tool call: run returns its content
ConcThinkFinal(r) ==
    /\ runs[r].pc = "think"
    /\ runs' = [runs EXCEPT ![r] = [@ EXCEPT !.answer = AnswerOf(r), !.pc = "returned"]]
    /\ histories' = histories
    /\ ConcUnchanged

\* one pass of the inner for loop of invocation r
ConcDispatchToolCall(r) ==
    /\ runs[r].pc = "dispatch"
    /\ \E outcome \in ConcOutcomes :
         LET run == runs[r]
             call == run.pending[run.callIdx]
             res == Execute(registry, call.name, outcome)
             m == ToolMessage(call, res.value)
         IN /\ histories' = [histories EXCEPT ![run.messages] = Append(@, m)]
            /\ runs' = [runs EXCEPT ![r] =
                           IF run.callIdx < Len(run.pending)
                           THEN [AppendOwn(@, m) EXCEPT !.callIdx = run.callIdx + 1]
                           ELSE [AppendOwn(@, m) EXCEPT
                                    !.pc = NextIteration(run.iteration, max_iterations),
                                    !.iteration = LoopVariable(run.iteration,
                                                               max_iterations)]]
    /\ ConcUnchanged

\* the forced summary of invocation r
ConcSummarize(r) ==
    /\ runs[r].pc = "summarize"
    /\ LET m == Msg("user", Str(SummaryDirective), <<>>, 0) IN
         /\ histories' = [histories EXCEPT ![runs[r].messages] = Append(@, m)]
         /\ runs' = [runs EXCEPT ![r] = [AppendOwn(@, m) EXCEPT !.answer = AnswerOf(r),
                                                 !.pc = "returned"]]
    /\ ConcUnchanged

NextConcurrent ==
    \E r \in 1..MaxRuns :
        \/ ConcRunStart(r)
        \/ ConcThinkFails(r)
        \/ ConcThinkToolCalls(r)
        \/ ConcThinkFinal(r)
        \/ ConcDispatchToolCall(r)
        \/ ConcSummarize(r)

SpecConcurrent == InitConcurrent /\ [][NextConcurrent]_vars

\* RetrievalTool: calls of execute on a store that is being filled

\* a RetrievalTool constructed on a new VectorStore
InitRetrieval ==
    /\ InitAgent
    /\ max_iterations = 0
    /\ chunkIn = NoChunkIn
    /\ chunkDone = FALSE
    /\ chunkOut = <<>>
    /\ chunkIndex = 0
    /\ chunkStart = 0
    /\ chunkHeap = <<>>
    /\ collection = {}
    /\ storeOp = NoStoreOp
    /\ embedOp = NoEmbedOp
    /\ retrievalOp \in { [NoRetrievalOp EXCEPT !.tool = [top_k |-> k, min_score |-> m]] :
                            k \in 1..MaxTopK, m \in MinScores }
    /\ runs = NoRuns
    /\ histories = <<>>

\* RetrievalTool.execute(query, year) called directly
CallRetrievalExecute(query, year, fail) ==
    /\ \E raw1 \in QueryResults(collection, query, retrievalOp.tool.top_k,
                                  IF year # NoYear THEN year ELSE NoWhere),
          raw2 \in QueryResults(collection, query, retrievalOp.tool.top_k, NoWhere) :
          retrievalOp' = RetrievalRecord(retrievalOp.tool, query, year,
                             RetrievalExecute(collection, retrievalOp.tool, query, year,
                                              raw1, raw2, fail))
    /\ UNCHANGED <<regVars, orchVars, lastExec, chunkVars, storeVars, embedVars, concVars>>

NextRetrieval ==
    \/ \E batch \in Batches(1) : AddDocuments(batch, "ignore")
    \/ \E query \in RunQueries, year \in {NoYear} \cup Years, fail \in 0..2 :
          CallRetrievalExecute(query, year, fail)

SpecRetrieval == InitRetrieval /\ [][NextRetrieval]_vars

---------------------------------------------------------------------------
(* Properties *)

Finished == pc \in {"returned", "raised"}

\* the reasoning calls issued with tool declarations, and the forced
\* summarization calls
ToolEnabledCalls == { i \in 1..Len(requests) : requests[i].kind = "tools" }
SummaryCalls == { i \in 1..Len(requests) : requests[i].kind = "summary" }
\* the responses that requested tools
ToolResponses ==
    { i \in 1..Len(requests) :
        requests[i].response.status = "ok" /\ requests[i].response.tool_calls # <<>> }

\* C1: with max_iterations = N a run issues at most N tool-enabled reasoning
\* calls; the forced summarization call is issued exactly once when all N
\* responses requested tools and never otherwise; no run makes more than
\* N + 1 reasoning calls.
C1_IterationCap ==
    /\ Cardinality(ToolEnabledCalls) <= max_iterations
    /\ Len(requests) <= max_iterations + 1
    /\ Cardinality(SummaryCalls) <= 1
    /\ Cardinality(SummaryCalls) = 1 => Cardinality(ToolResponses) = max_iterations
    /\ (Finished /\ Cardinality(ToolResponses) = max_iterations)
          => Cardinality(SummaryCalls) = 1

\* C2: the first reasoning response of the loop that carries no tool calls
\* ends the run: it is the last reasoning call, run has returned its content
\* (empty or not) and nothing was appended to the history after it.
C2_FinalAnswerEndsRun ==
    \A i \in ToolEnabledCalls :
        (requests[i].response.status = "ok" /\ requests[i].response.tool_calls = <<>>)
        => /\ i = Len(requests)
           /\ pc = "returned"
           /\ error = "none"
           /\ answer = requests[i].response.content
           /\ messages = requests[i].history

\* C2 witness: after a tool round, a response without tool calls and with
\* empty content was returned
C2_Witness ==
    /\ pc = "returned"
    /\ Len(requests) = 2
    /\ requests[2].kind = "tools"
    /\ answer = Str(<<>>)

\* the observations that follow the assistant message at position p of a
\* history pair up with its tool calls: as many, in order, with their ids
ObservationsMatch(h, p) ==
    LET calls == h[p].tool_calls
        k == Len(calls)
    IN  /\ p + k <= Len(h)
        /\ \A j \in 1..k :
              /\ h[p + j].role = "tool"
              /\ h[p + j].tool_call_id = calls[j].id
        /\ (p + k + 1 <= Len(h)) => h[p + k + 1].role # "tool"

\* every tool observation of a history follows an assistant message
ObservationsOwned(h) ==
    \A q \in 1..Len(h) :
        h[q].role = "tool" =>
            \E p \in 1..(q - 1) :
                h[p].role = "assistant" /\ q - p <= Len(h[p].tool_calls)

\* C3: in the history passed to any reasoning call, every assistant message
\* that requested k tool calls is followed by exactly k tool observations,
\* in the order of the calls, each with the id of its call.
C3_ObservationsInRequestOrder ==
    \A i \in 1..Len(requests) :
        LET h == requests[i].history IN
        /\ \A p \in 1..Len(h) : h[p].role = "assistant" => ObservationsMatch(h, p)
        /\ ObservationsOwned(h)

\* C3 witness: a reasoning call was issued after a response with two tool calls
C3_Witness ==
    \E i \in 1..Len(requests) :
        \E p \in 1..Len(requests[i].history) :
            /\ requests[i].history[p].role = "assistant"
            /\ Len(requests[i].history[p].tool_calls) = 2

\* C4: when the registered tool's execute raises, ToolRegistry.execute does
\* not raise, returns a non-empty error string and leaves the registry as
\* it was.
C4_ToolErrorIsolation ==
    (lastExec.known /\ lastExec.outcome.kind = "raise")
    => /\ ~lastExec.result.raised
       /\ lastExec.result.value # <<>>
       /\ lastExec.result.value = <<ExecErrorPrefix>> \o lastExec.outcome.text
       /\ lastExec.after = lastExec.before

\* C4 witness: a registered tool raised an exception whose text is empty
C4_Witness ==
    /\ lastExec.known
    /\ lastExec.outcome = [kind |-> "raise", text |-> <<>>]
    /\ Len(lastExec.before) = 2

\* C5: when the arguments of a requested tool call cannot be decoded, run does
\* not raise: an error string is appended as that call's observation and the
\* loop continues.
C5_DecodeFailureIsObservation ==
    [][ (pc = "dispatch" /\ DecodeArguments(pending[callIdx].arguments) # "ok")
        => /\ pc' \in {"dispatch", "think", "summarize"}
           /\ error' = "none"
           /\ Len(messages') = Len(messages) + 1
           /\ messages'[Len(messages')].role = "tool"
           /\ messages'[Len(messages')].tool_call_id = pending[callIdx].id ]_vars

C7_AnswerOrProviderError ==
    /\ pc = "returned" => (answer # None /\ answer.text # <<>>)
    /\ pc = "raised" => error = "ProviderError"
    /\ error # "ToolException"

\* C8: the only failures run propagates are failures of a reasoning call;
\* such a failure is propagated at once: the failed call is the last one and
\* nothing is appended to the history after it.
C8_OnlyProviderErrorsPropagate ==
    /\ pc = "raised" =>
          /\ error = "ProviderError"
          /\ requests # <<>>
          /\ requests[Len(requests)].response.status = "error"
    /\ \A i \in 1..Len(requests) :
          requests[i].response.status = "error"
          => /\ i = Len(requests)
             /\ pc = "raised"
             /\ messages = requests[i].history

\* C9: after any sequence of register calls the registry holds exactly one
\* entry per distinct name ever registered, bound to the tool registered last
\* under that name.
C9_RegistryLastWriteWins ==
    /\ \A i, j \in 1..Len(registry) : registry[i].name = registry[j].name => i = j
    /\ \A i \in 1..Len(registry) :
          /\ registry[i].tool.name = registry[i].name
          /\ registry[i].tool = lastRegistered[registry[i].name].tool
    /\ \A n \in ToolNames :
          /\ Get(registry, n) = lastRegistered[n].tool
          /\ (lastRegistered[n].times > 0) <=> (\E i \in 1..Len(registry) : registry[i].name = n)

\* C9 witness: a name was registered more than once beside another name
C9_Witness ==
    /\ Len(registry) = 2
    /\ lastRegistered["search_report"].times = 2
    /\ lastRegistered["search_report"].tool.id = "RetrievalTool"
    /\ registry[1].name = "search_report"

\* C10: every chunk of split_by_paragraphs and split_by_sentences, except a
\* single unit that alone exceeds chunk_size, has char_count <= chunk_size.
C10_ChunkSizeBound ==
    chunkDone =>
        \A i \in 1..Len(chunkOut) :
            \/ (Len(chunkOut[i].parts) = 1 /\ Len(chunkOut[i].parts[1]) > chunkIn.chunk_size)
            \/ Len(chunkOut[i].text) <= chunkIn.chunk_size

\* the characters of s that are not white space, in order
NonSpace(s) == SelectSeq(s, LAMBDA c : ~IsSpace(c))

RECURSIVE ConcatTexts(_)
\* the texts of the chunks, one after the other
ConcatTexts(chunks) ==
    IF chunks = <<>> THEN <<>> ELSE Head(chunks).text \o ConcatTexts(Tail(chunks))

IsBlank(s) == \A i \in 1..Len(s) : IsSpace(s[i])

\* s[-n:] for n > 0
Suffix(s, n) == IF n >= Len(s) THEN s ELSE SubSeq(s, Len(s) - n + 1, Len(s))

\* sub in s
Occurs(sub, s) ==
    \E k \in 0..Len(s) : k + Len(sub) <= Len(s) /\ SubSeq(s, k + 1, k + Len(sub)) = sub

\* the dict of the i-th chunk returned
ChunkMeta(i) == chunkHeap[chunkOut[i].metadata]

\* C11: the chunks of the paragraph and the sentence strategy together
\* contain all non-white-space content of the input, in its original order,
\* under every configuration.
C11_NoContentLost ==
    (chunkDone /\ chunkIn.strategy \in {"paragraphs", "sentences"}) =>
        NonSpace(ConcatTexts(chunkOut)) = NonSpace(chunkIn.text)

\* C12: while split_fixed is in its loop with overlap >= chunk_size, the
\* next value of start is strictly greater than start, so the loop ends.
C12_FixedStartAdvances ==
    (chunkIn.strategy = "fixed" /\ ~chunkDone /\ chunkStart < Len(chunkIn.text)
        /\ chunkIn.overlap >= chunkIn.chunk_size) =>
        FixedNextStart(chunkIn, chunkStart) > chunkStart

\* C13: under all three strategies the i-th chunk, counted from 0, has
\* index i and metadata["chunk_index"] i, also when candidates were skipped.
C13_DenseIndices ==
    \A i \in 1..Len(chunkOut) :
        /\ chunkOut[i].index = i - 1
        /\ "chunk_index" \in DictKeys(ChunkMeta(i))
        /\ DictGet(ChunkMeta(i), "chunk_index") = i - 1

\* C13 witness: the first paragraph was dropped as undersized and a later
\* one was returned
C13_Witness ==
    /\ chunkDone
    /\ chunkIn.strategy = "paragraphs"
    /\ Len(chunkOut) >= 1
    /\ chunkOut[1].parts[1] # Paragraphs(chunkIn.text)[1]

\* C14: a call on an empty or white-space-only text collects no chunk and
\* returns, under every strategy and configuration: until it has returned
\* it can take a step that changes its state.
C14_BlankTextReturnsNoChunk ==
    IsBlank(chunkIn.text) =>
        /\ chunkOut = <<>>
        /\ chunkDone \/ ENABLED <<NextChunk>>_vars

\* C15: Chunker(chunk_size=40, overlap=0), otherwise default, splits the
\* two-paragraph text into exactly two chunks, the first paragraph with
\* chunk_index 0 and the second with chunk_index 1.
C15_TwoParagraphScenario ==
    (chunkDone /\ chunkIn = ScenarioInput) =>
        /\ Len(chunkOut) = 2
        /\ chunkOut[1].text = SubSeq(ScenarioText, 1, 33)
        /\ chunkOut[2].text = SubSeq(ScenarioText, 36, Len(ScenarioText))
        /\ DictGet(ChunkMeta(1), "chunk_index") = 0
        /\ DictGet(ChunkMeta(2), "chunk_index") = 1

\* C16: when split is configured with overlap o > 0 and returns two chunks
\* or more, the last o characters of each chunk occur in the chunk after it.
C16_OverlapSharedByNeighbours ==
    (chunkDone /\ chunkIn.strategy = "paragraphs" /\ chunkIn.overlap > 0) =>
        \A i \in 1..(Len(chunkOut) - 1) :
            Occurs(Suffix(chunkOut[i].text, chunkIn.overlap), chunkOut[i + 1].text)

\* the caller's dict is as it was handed over, and every chunk has a dict
\* object of its own
MetadataNotShared ==
    /\ chunkIn.metadata = CallerRef => chunkHeap[CallerRef] = chunkIn.caller_meta
    /\ \A i \in 1..Len(chunkOut) : chunkOut[i].metadata # chunkIn.metadata
    /\ \A i, j \in 1..Len(chunkOut) : i # j => chunkOut[i].metadata # chunkOut[j].metadata

\* C17 as stated: every chunk carries all key/value pairs of the caller's
\* metadata unchanged, plus chunk_index; the caller's mapping is not
\* modified and no two chunks share one mapping.
C17_MetadataCarried ==
    /\ MetadataNotShared
    /\ \A i \in 1..Len(chunkOut) :
          /\ chunkIn.caller_meta \subseteq ChunkMeta(i)
          /\ "chunk_index" \in DictKeys(ChunkMeta(i))

\* C17 amended: every chunk carries all key/value pairs of the caller's
\* metadata whose key is not "chunk_index" unchanged, and no other key but
\* chunk_index, whose value is the chunk's index even when the caller passed
\* one; the caller's mapping is not modified and no two chunks share one.
C17_MetadataCarriedExceptIndex ==
    /\ MetadataNotShared
    /\ \A i \in 1..Len(chunkOut) :
          /\ {item \in chunkIn.caller_meta : item[1] # "chunk_index"} \subseteq ChunkMeta(i)
          /\ DictKeys(ChunkMeta(i)) = DictKeys(chunkIn.caller_meta) \cup {"chunk_index"}
          /\ DictGet(ChunkMeta(i), "chunk_index") = chunkOut[i].index

\* C17 witness: a call handed a dict with the keys page and chunk_index
\* returned two chunks
C17_Witness ==
    /\ chunkDone
    /\ chunkIn.metadata = CallerRef
    /\ DictKeys(chunkIn.caller_meta) = {"page", "chunk_index"}
    /\ Len(chunkOut) >= 2

\* C18: the ids add_documents generates are distinct from each other and
\* from the id of every record stored when it is called, after any sequence
\* of add_documents, delete and clear.
C18_GeneratedIdsFresh ==
    storeOp.kind = "add" =>
        /\ \A i, j \in 1..Len(storeOp.ids) : i # j => storeOp.ids[i] # storeOp.ids[j]
        /\ \A i \in 1..Len(storeOp.ids) : storeOp.ids[i] \notin storeOp.stored

\* C19: search returns at most top_k results, each with score >= min_score.
C19_SearchBounded ==
    storeOp.kind = "search" =>
        /\ Len(storeOp.results) <= storeOp.top_k
        /\ \A i \in 1..Len(storeOp.results) : storeOp.results[i].score >= storeOp.min_score

\* C19 witness: the collection holds more matching records than top_k, and
\* the search returned top_k results, the last of them just at min_score
C19_Witness ==
    /\ storeOp.kind = "search"
    /\ Cardinality(collection) > storeOp.top_k
    /\ Len(storeOp.results) = storeOp.top_k
    /\ storeOp.results[Len(storeOp.results)].score = storeOp.min_score

\* C20: the results of search are in non-increasing order of score.
C20_ResultsByDescendingScore ==
    storeOp.kind = "search" =>
        \A i, j \in 1..Len(storeOp.results) :
            i < j => storeOp.results[i].score >= storeOp.results[j].score

\* C20 witness: a search returned two results of different scores
C20_Witness ==
    /\ storeOp.kind = "search"
    /\ Len(storeOp.results) = 2
    /\ storeOp.results[1].score # storeOp.results[2].score

\* C21: every SearchResult that search returns has a score within [0, 1],
\* for every distance the index reports and every min_score argument.
C21_ScoreInUnitInterval ==
    storeOp.kind = "search" =>
        \A i \in 1..Len(storeOp.results) :
            storeOp.results[i].score >= 0 /\ storeOp.results[i].score <= 1

\* C29: in the paragraph and sentence strategies every unit longer than
\* chunk_size is returned as the text of a chunk of its own: not truncated,
\* not merged with a neighbouring unit, not dropped.
C29_OversizedUnitEmittedWhole ==
    (chunkDone /\ chunkIn.strategy \in {"paragraphs", "sentences"}) =>
        LET units == IF chunkIn.strategy = "paragraphs"
                     THEN Paragraphs(chunkIn.text) ELSE Sentences(chunkIn.text)
        IN \A u \in 1..Len(units) :
              Len(units[u]) > chunkIn.chunk_size =>
                 \E i \in 1..Len(chunkOut) :
                    chunkOut[i].text = units[u] /\ chunkOut[i].parts = <<units[u]>>

\* C25 as stated: get_openai_tools returns exactly one declaration for every
\* registered tool, in the order in which the tools were registered, after
\* any sequence of register calls.
C25_DeclarationsInRegistrationOrder ==
    GetOpenAITools(registry) = [i \in 1..Len(regLog.tools) |-> ToOpenAITool(regLog.tools[i])]

\* C25 amended: get_openai_tools returns exactly one declaration for every
\* registered name, that of the tool registered last under the name, in the
\* order in which the names were first registered.
C25_DeclarationsInNameOrder ==
    GetOpenAITools(registry) =
        [i \in 1..Len(regLog.names) |-> ToOpenAITool(lastRegistered[regLog.names[i]].tool)]

\* C25 witness: search_report was registered first, calculator second, and
\* search_report was then registered again with another tool
C25_Witness ==
    /\ regLog.names = <<"search_report", "calculator">>
    /\ Len(regLog.tools) = 2
    /\ regLog.tools[1].name = "calculator"
    /\ lastRegistered["search_report"].times = 2

\* the positions of the summarization directive in a history
DirectivePositions(h) ==
    { q \in 1..Len(h) : h[q].role = "user" /\ h[q].content = Str(SummaryDirective) }

\* C27: when the budget is exhausted the history the final call is sent
\* holds exactly one summarization directive, as its last message and so
\* after every tool observation; the call carries no tool declarations; it
\* is the last reasoning call and nothing is appended or executed after it;
\* run returns the content the call answered with, and raises nothing of
\* its own (only a failure of the reasoning call itself leaves run).
C27_ForcedSummary ==
    \A i \in SummaryCalls :
        LET h == requests[i].history IN
        /\ i = Len(requests)
        /\ requests[i].declared = <<>>
        /\ DirectivePositions(h) = {Len(h)}
        /\ messages = h
        /\ Cardinality(ToolResponses) = max_iterations
        /\ requests[i].response.status = "ok" =>
              /\ pc = "returned"
              /\ error = "none"
              /\ answer = requests[i].response.content
        /\ requests[i].response.status # "ok" =>
              /\ pc = "raised"
              /\ error = "ProviderError"

\* C27 witness: two rounds of tool calls used up the budget, and the final
\* call's content was returned after the observations and the directive
C27_Witness ==
    /\ pc = "returned"
    /\ max_iterations = 2
    /\ Len(requests) = 3
    /\ requests[3].kind = "summary"
    /\ messages[Len(messages) - 1].role = "tool"
    /\ answer = Str(<<"text">>)

\* C28: after a response with both content and tool calls, the history
\* continues with the assistant message, content and tool calls unchanged,
\* and the observations of its calls come only after it; the content is not
\* returned as the answer of that iteration.
C28_ContentWithToolCalls ==
    \A i \in ToolResponses :
        LET h == requests[i].history
            resp == requests[i].response
        IN resp.content # None =>
           /\ Len(messages) > Len(h)
           /\ SubSeq(messages, 1, Len(h)) = h
           /\ messages[Len(h) + 1] = Msg("assistant", resp.content, resp.tool_calls, 0)
           /\ \A q \in 1..Len(messages), j \in 1..Len(resp.tool_calls) :
                 (messages[q].role = "tool"
                    /\ messages[q].tool_call_id = resp.tool_calls[j].id) => q > Len(h) + 1
           /\ i = Len(requests) =>
                 /\ pc # "returned"
                 /\ pc = "dispatch" => pending = resp.tool_calls

\* C28 witness: a response carried text and a tool call, the call was
\* executed and the loop went on to the next reasoning call
C28_Witness ==
    /\ pc = "think"
    /\ Len(requests) = 1
    /\ requests[1].response.content = Str(<<"text">>)
    /\ requests[1].response.tool_calls # <<>>
    /\ messages[Len(messages)].role = "tool"

\* C26: embed_batch returns one vector per input text, position i holding
\* the embedding of input i, for every order in which the provider returns
\* its items; an empty input returns an empty list without a provider call.
C26_EmbedBatchAligned ==
    embedOp.done =>
        /\ Len(embedOp.result) = Len(embedOp.texts)
        /\ \A i \in 1..Len(embedOp.texts) : embedOp.result[i] = Embedding(embedOp.texts[i])
        /\ embedOp.called <=> embedOp.texts # <<>>

\* C26 witness: three different texts whose items came back last first
C26_Witness ==
    /\ embedOp.done
    /\ embedOp.texts = <<"t1", "t2", "t3">>
    /\ embedOp.response[1].index = 2
    /\ embedOp.response[3].index = 0

\* C22: a call of RetrievalTool.execute makes exactly one search when no
\* year is given or the year-filtered search returns a result, and exactly
\* two when a year is given and the filtered search returns nothing, the
\* second with the filter removed and the same query, top_k and min_score;
\* it never makes more than two.
C22_SearchesPerCall ==
    retrievalOp.done =>
        LET ss == retrievalOp.searches IN
        /\ Len(ss) \in {1, 2}
        /\ ss[1].query = retrievalOp.query
        /\ ss[1].top_k = retrievalOp.tool.top_k
        /\ ss[1].min_score = retrievalOp.tool.min_score
        /\ ss[1].where = (IF retrievalOp.year = NoYear THEN NoWhere ELSE retrievalOp.year)
        /\ (retrievalOp.year = NoYear \/ ss[1].results # <<>>) => Len(ss) = 1
        /\ (retrievalOp.year # NoYear /\ ss[1].results = <<>> /\ ~ss[1].raised) =>
              /\ Len(ss) = 2
              /\ ss[2] = [ss[1] EXCEPT !.where = NoWhere, !.raised = ss[2].raised,
                                       !.results = ss[2].results]

\* C22 witness: a year was given, the filtered search found nothing and the
\* search without filter found a record of another year
C22_Witness ==
    /\ retrievalOp.done
    /\ retrievalOp.year = 2023
    /\ Len(retrievalOp.searches) = 2
    /\ Len(retrievalOp.searches[2].results) = 1
    /\ retrievalOp.searches[2].results[1].metadata = 2024

C30_SearchFailureObserved ==
    [][ ( /\ pc = "dispatch"
          /\ DecodeArguments(pending[callIdx].arguments) = "ok"
          /\ Get(registry, pending[callIdx].name) # NoTool
          /\ Get(registry, pending[callIdx].name).id = "RetrievalTool"
          /\ \E i \in 1..Len(retrievalOp'.searches) : retrievalOp'.searches[i].raised )
        => /\ messages' = Append(messages,
                              ToolMessage(pending[callIdx],
                                          <<ExecErrorPrefix>> \o SearchErrorText))
           /\ pc' \in {"dispatch", "think", "summarize"}
           /\ error' = "none"
           /\ answer' = answer
           /\ retrievalOp'.searches[Len(retrievalOp'.searches)].raised
           /\ retrievalOp'.searches[1].raised => Len(retrievalOp'.searches) = 1
      ]_vars

\* C30 witness: a filtered search failed in a run, the run went on to a
\* later reasoning call and returned its answer
C30_Witness ==
    /\ pc = "returned"
    /\ retrievalOp.done
    /\ retrievalOp.year # NoYear
    /\ Len(retrievalOp.searches) = 1
    /\ retrievalOp.searches[1].raised
    /\ \E i \in 1..Len(messages) :
          /\ messages[i].role = "tool"
          /\ messages[i].content = Str(<<ExecErrorPrefix>> \o SearchErrorText)

\* the messages invocation r may put in a history: the system prompt, its
\* question, the assistant messages answered to it, the observations of its
\* tool calls, the summary directive
BelongsTo(m, r) ==
    \/ m = Msg("system", Str(SystemPrompt), <<>>, 0)
    \/ m = Msg("user", Str(QuestionOf(r)), <<>>, 0)
    \/ m = Msg("user", Str(SummaryDirective), <<>>, 0)
    \/ /\ m.role = "assistant"
       /\ m.content = ThoughtOf(r)
       /\ \A i \in 1..Len(m.tool_calls) :
             m.tool_calls[i].id \in { CallIdOf(r, it) : it \in 1..MaxIter }
    \/ /\ m.role = "tool"
       /\ m.tool_call_id \in { CallIdOf(r, it) : it \in 1..MaxIter }

\* C24: with several run invocations in progress on one orchestrator, the
\* history of each invocation is exactly the sequence of messages that
\* invocation appended itself, in its order: its system prompt and
\* question, then its assistant messages and observations; no message of
\* another invocation is in it and none of its own is missing.
C24_HistoriesIsolated ==
    \A r \in 1..MaxRuns :
        runs[r].pc # "idle" =>
            /\ histories[runs[r].messages] = runs[r].own
            /\ \A i \in 1..Len(histories[runs[r].messages]) :
                  BelongsTo(histories[runs[r].messages][i], r)
            /\ histories[runs[r].messages][2] = Msg("user", Str(QuestionOf(r)), <<>>, 0)
            /\ \A q \in 1..MaxRuns :
                  (q # r /\ runs[q].pc # "idle") => runs[q].messages # runs[r].messages

\* C24 witness: two invocations are in progress at once, each in its second
\* iteration between its tool call and the observation, with an earlier
\* observation in its history
C24_Witness ==
    /\ Len(histories) >= 2
    /\ runs[1].messages # runs[2].messages
    /\ runs[1].pc = "dispatch"
    /\ runs[2].pc = "dispatch"
    /\ Len(histories[1]) > 4
    /\ Len(histories[2]) > 4

=============================================================================
